---- MODULE Spec2Model ----
(***************************************************************************)
(* Blogify: identity, tokens, API authentication, permissions, the follow  *)
(* graph and comment moderation.                                           *)
(*                                                                         *)
(* The store (users, roles, follows, posts, comments) and the requests in  *)
(* flight are the state; every view function, model method and library     *)
(* call the properties rest on is a definition below, named as in the      *)
(* source.                                                                 *)
(*                                                                         *)
(* Profile fields no property reads (location, about_me, member_since,     *)
(* last_seen, which ping() rewrites on every browser request) are not      *)
(* carried.                                                                *)
(***************************************************************************)
EXTENDS Integers, Sequences, FiniteSets, Bags, TLC

VARIABLES
    users,      \* the users table: id -> row
    nextId,     \* next primary key the store hands out
    roles,      \* the roles table: name -> row
    follows,    \* the follows table: <<follower_id, followed_id>> -> number of rows
    loggedIn,   \* ids that hold a browser session (flask-login)
    mailbox,    \* confirmation tokens handed to send_email
    now,        \* the clock, in seconds
    inflight,   \* the bag of follow requests between their steps
    last,       \* the most recent request and the response it got
    posts,          \* the posts table: id -> row
    nextPostId,     \* next primary key of posts
    comments,       \* the comments table: id -> row
    nextCommentId   \* next primary key of comments

\* The tables of main/views.py's posts and comments.
content == <<posts, nextPostId, comments, nextCommentId>>

vars == <<users, nextId, roles, follows, loggedIn, mailbox, now, inflight, last,
          posts, nextPostId, comments, nextCommentId>>

-----------------------------------------------------------------------------
(* Bounds of the model.                                                    *)

MaxUsers == 3
MaxTokens == 2
MaxRequests == 2
MaxPosts == 3
MaxComments == 2

UserIds == 1..MaxUsers

\* None: no row / no user (Python's None for a query's .first() and .get()).
None == 0

Emails == {"admin@x", "bob@x"}
Usernames == {"alice", "bob"}

\* The instants the clock visits: a token minted at 0 is 3000 s old at 3000
\* and 3700 s old at 3700; one minted at 100 is exactly 3600 s old at 3700.
Instants == {0, 100, 3000, 3700}

-----------------------------------------------------------------------------
(* Configuration.                                                          *)

\* current_app.config['FLASKY_ADMIN']
FLASKY_ADMIN == "admin@x"

-----------------------------------------------------------------------------
(* Permission bits and the permission check.                               *)

FOLLOW == 1
COMMENT == 2
WRITE == 4
MODERATE_COMMENTS == 8
ADMINISTER == 128

\* Python's & on non-negative integers.
RECURSIVE BitAnd(_, _)
BitAnd(a, b) ==
    IF a = 0 \/ b = 0 THEN 0
    ELSE (IF a % 2 = 1 /\ b % 2 = 1 THEN 1 ELSE 0) + 2 * BitAnd(a \div 2, b \div 2)

\* A user row's role when it has none (role_id is NULL).
NoRole == "none"

\* User.can with a test for any common bit in place of the equality.
can_AnyBit(u, permissions) ==
    /\ users[u].role # NoRole
    /\ BitAnd(roles[users[u].role].permissions, permissions) # 0

\* User.can: role is not None and (role.permissions & permissions) == permissions
can(u, permissions) ==
    /\ users[u].role # NoRole
    /\ BitAnd(roles[users[u].role].permissions, permissions) = permissions

-----------------------------------------------------------------------------
(* The roles table.  Requests only read it; insert_roles is its one writer *)
(* in the source.  A fresh store has no row (NoRoles); a store seeded      *)
(* while the name WRITE_ARTICLES still resolved to the 0x04 bit holds the  *)
(* three rows (SeededRoles), and that is the store the requests below run  *)
(* against.                                                                *)

RoleNames == {"User", "Moderator", "Administrator"}

NoRoles == [n \in {} |-> [permissions |-> 0, default |-> FALSE]]

SeededRoles ==
    [n \in RoleNames |->
        CASE n = "User" ->
                [permissions |-> FOLLOW + COMMENT + WRITE, default |-> TRUE]
          [] n = "Moderator" ->
                [permissions |-> FOLLOW + COMMENT + WRITE + MODERATE_COMMENTS,
                 default |-> FALSE]
          [] OTHER ->
                [permissions |-> 255, default |-> FALSE]]

\* Role.query.filter_by(...).first(): a matching role name, or NoRole.
FirstRole(matching) ==
    IF matching = {} THEN NoRole ELSE CHOOSE n \in matching : TRUE

\* User.__init__: the administrator role for the configured address, else the
\* role flagged default, else none.
InitialRole(email) ==
    LET admin == FirstRole({n \in DOMAIN roles : roles[n].permissions = 255})
        dflt == FirstRole({n \in DOMAIN roles : roles[n].default})
    IN  IF email = FLASKY_ADMIN /\ admin # NoRole THEN admin ELSE dflt

-----------------------------------------------------------------------------
(* Passwords: strings as sequences of characters.                          *)

RECURSIVE LStrip(_)
LStrip(s) == IF s # <<>> /\ Head(s) = " " THEN LStrip(Tail(s)) ELSE s

RECURSIVE RStrip(_)
RStrip(s) ==
    IF s # <<>> /\ s[Len(s)] = " " THEN RStrip(SubSeq(s, 1, Len(s) - 1)) ELSE s

\* str.strip()
Strip(s) == RStrip(LStrip(s))

\* werkzeug: a salted one-way hash, opaque but for the check below.
generate_password_hash(password) == <<"hash", password>>
check_password_hash(pwhash, password) == pwhash = <<"hash", password>>

\* User.verify_passwd
User_verify_passwd(u, password) ==
    check_password_hash(users[u].passwd_hash, password)

EmptyString == <<>>
RegisterPasswords == {<<"a">>, <<" ", "a">>}
RequestPasswords == {EmptyString, <<"a">>, <<" ", "a">>, <<"b">>}

-----------------------------------------------------------------------------
(* itsdangerous.TimedSerializer: a token is the payload, the time it was   *)
(* signed and the signature.  sig is "good" for a signature made with      *)
(* SECRET_KEY over exactly this payload and time, "bad" for anything else  *)
(* of the right shape, "malformed" for text that is no token at all.       *)

NoToken == [sig |-> "none", key |-> "", sub |-> None, ts |-> 0]
JunkToken == [sig |-> "malformed", key |-> "", sub |-> None, ts |-> 0]

\* Serializer(secret_key, ...): TimedSerializer's constructor has no
\* expires_in parameter (that was TimedJSONWebSignatureSerializer's), so the
\* call that passes one raises TypeError.
Serializer(passes_expires_in) == IF passes_expires_in THEN "TypeError" ELSE "ok"

\* s.dumps({key: sub}) at time t
dumps(key, sub, t) == [sig |-> "good", key |-> key, sub |-> sub, ts |-> t]

\* s.loads(token) / s.loads(token, max_age=max_age) at time t: the payload,
\* or the exception raised.  check_age is FALSE when no max_age is passed.
loads(token, check_age, max_age, t) ==
    IF token.sig # "good" THEN [exc |-> "BadSignature", key |-> "", sub |-> None]
    ELSE IF check_age /\ t - token.ts > max_age
         THEN [exc |-> "SignatureExpired", key |-> "", sub |-> None]
    ELSE [exc |-> "", key |-> token.key, sub |-> token.sub]

\* User.generate_auth_token(expiration) at time t: the token, or the
\* exception that leaves the method.
generate_auth_token(u, expiration, t) ==
    IF Serializer(TRUE) # "ok"
    THEN [exc |-> Serializer(TRUE), token |-> NoToken]
    ELSE [exc |-> "", token |-> dumps("id", u, t)]

\* A slip: the subject is read whatever the payload's key is.
verify_auth_token_AnyKey(token, t) ==
    LET data == loads(token, FALSE, 0, t)
    IN  IF data.exc # "" THEN [exc |-> "", user |-> None]
        ELSE [exc |-> "",
              user |-> IF data.sub \in DOMAIN users THEN data.sub ELSE None]

\* User.verify_auth_token(token) at time t: the user returned (None for no
\* user), or the exception that leaves the method.  data['id'] is outside
\* the try block.
verify_auth_token(token, t) ==
    LET data == loads(token, FALSE, 0, t)
    IN  IF data.exc # "" THEN [exc |-> "", user |-> None]
        ELSE IF data.key # "id" THEN [exc |-> "KeyError", user |-> None]
        ELSE [exc |-> "",
              user |-> IF data.sub \in DOMAIN users THEN data.sub ELSE None]

\* User.generate_confirmation_token() at time t
generate_confirmation_token(u, t) ==
    IF Serializer(FALSE) # "ok" THEN NoToken ELSE dumps("confirm", u, t)

\* A slip: loads is called without max_age.
confirm_NoMaxAge(u, token, max_age, t) ==
    LET data == loads(token, FALSE, max_age, t)
    IN  IF data.exc # "" THEN [exc |-> "", ok |-> FALSE]
        ELSE [exc |-> "",
              ok |-> (IF data.key = "confirm" THEN data.sub ELSE None) = u]

\* User.confirm(token, max_age) at time t: ok is the value returned (the flag
\* is set exactly when it is TRUE), exc the exception that leaves the method.
\* data.get('confirm') is None for a payload without that key.
confirm(u, token, max_age, t) ==
    LET data == loads(token, TRUE, max_age, t)
    IN  IF data.exc # "" THEN [exc |-> "", ok |-> FALSE]
        ELSE [exc |-> "",
              ok |-> (IF data.key = "confirm" THEN data.sub ELSE None) = u]

\* The default of confirm's max_age parameter.
ConfirmMaxAge == 3600

\* The expiration get_token asks for.
TokenExpiration == 3600

-----------------------------------------------------------------------------
(* Queries on the users table.                                             *)

\* User.query.filter_by(email=text).first()
UserByEmail(text) ==
    IF \E u \in DOMAIN users : users[u].email = text
    THEN CHOOSE u \in DOMAIN users : users[u].email = text
    ELSE None

\* User.query.filter_by(username=text).first()
UserByUsername(text) ==
    IF \E u \in DOMAIN users : users[u].username = text
    THEN CHOOSE u \in DOMAIN users : users[u].username = text
    ELSE None

-----------------------------------------------------------------------------
(* What a client can put into a request.                                   *)

\* A minted token whose payload was rewritten: the signature no longer fits.
Tampered == {[t EXCEPT !.sig = "bad", !.sub = u] : t \in mailbox, u \in DOMAIN users}

\* {'id': u} signed with SECRET_KEY at an instant up to now: the value
\* line 231 of models.py would sign.  No operation below mints one; they are
\* arguments for the verification methods, which take any string.
SignedIdPayloads ==
    {dumps("id", u, i) : u \in DOMAIN users, i \in {j \in Instants : j <= now}}

TokenInputs == mailbox \cup Tampered \cup SignedIdPayloads \cup {JunkToken}

\* The identifier field of an API request: empty, an address, or a token's
\* text.  A token's text (base64url and dots) holds no "@", so it equals no
\* address the forms' Email() validator let into the table.
EmptyIdent == [email |-> "", token |-> NoToken]
EmailIdent(e) == [email |-> e, token |-> NoToken]
TokenIdent(t) == [email |-> "", token |-> t]
IdentInputs ==
    {EmptyIdent} \cup {EmailIdent(e) : e \in Emails}
        \cup {TokenIdent(t) : t \in mailbox \cup SignedIdPayloads \cup {JunkToken}}

\* User.query.filter_by(email=email_or_token).first()
UserByIdent(ident) ==
    IF ident.token = NoToken /\ ident.email # "" THEN UserByEmail(ident.email)
    ELSE None

-----------------------------------------------------------------------------
(* The record of the most recent request and its response.                 *)

Blank ==
    [op |-> "none", who |-> None, target |-> None, token |-> NoToken,
     ident |-> EmptyIdent, password |-> EmptyString, at |-> 0,
     was_confirmed |-> FALSE, ok |-> FALSE, token_used |-> FALSE,
     user |-> None, exc |-> "", status |-> 0, requested |-> 0, page |-> 0,
     items |-> <<>>, permissions |-> 0]

Init ==
    /\ users = [u \in {} |-> 0]
    /\ nextId = 1
    /\ roles = SeededRoles
    /\ follows = [p \in UserIds \X UserIds |-> 0]
    /\ loggedIn = {}
    /\ mailbox = {}
    /\ now = 0
    /\ inflight = EmptyBag
    /\ last = Blank
    /\ posts = [p \in {} |-> 0]
    /\ nextPostId = 1
    /\ comments = [c \in {} |-> 0]
    /\ nextCommentId = 1

\* The store right after db.create_all(): no role has been inserted.
InitFresh ==
    /\ users = [u \in {} |-> 0]
    /\ nextId = 1
    /\ roles = NoRoles
    /\ follows = [p \in UserIds \X UserIds |-> 0]
    /\ loggedIn = {}
    /\ mailbox = {}
    /\ now = 0
    /\ inflight = EmptyBag
    /\ last = Blank
    /\ posts = [p \in {} |-> 0]
    /\ nextPostId = 1
    /\ comments = [c \in {} |-> 0]
    /\ nextCommentId = 1

-----------------------------------------------------------------------------
(* auth/views.py                                                           *)

\* RegistrationForm.validate_email / validate_username
RegistrationFormValid(email, username) ==
    /\ UserByEmail(email) = None
    /\ UserByUsername(username) = None

\* register(): POST of the registration form.
Register(email, username, password) ==
    /\ nextId <= MaxUsers
    /\ IF ~RegistrationFormValid(email, username)
       THEN /\ last' = [Blank EXCEPT !.op = "register", !.at = now,
                                     !.exc = "ValidationError", !.status = 200]
            /\ UNCHANGED <<users, nextId, roles, follows, loggedIn, mailbox,
                           now, inflight>>
       ELSE /\ users' = users @@ (nextId :>
                    [email |-> email, username |-> username,
                     passwd_hash |-> generate_password_hash(Strip(password)),
                     role |-> InitialRole(email), confirmed |-> FALSE])
            /\ nextId' = nextId + 1
            /\ loggedIn' = loggedIn \cup {nextId}
            /\ mailbox' = mailbox \cup {generate_confirmation_token(nextId, now)}
            /\ last' = [Blank EXCEPT !.op = "register", !.who = nextId,
                                     !.password = password,
                                     !.at = now, !.ok = TRUE, !.status = 302,
                                     !.token = generate_confirmation_token(nextId, now)]
            /\ UNCHANGED <<roles, follows, now, inflight>>
    /\ UNCHANGED content

\* resend_confirmation(): login_required.
ResendConfirmation(u) ==
    /\ u \in loggedIn
    /\ Cardinality(mailbox) < MaxTokens
    /\ mailbox' = mailbox \cup {generate_confirmation_token(u, now)}
    /\ last' = [Blank EXCEPT !.op = "resend_confirmation", !.who = u,
                             !.at = now, !.status = 302,
                             !.token = generate_confirmation_token(u, now)]
    /\ UNCHANGED content
    /\ UNCHANGED <<users, nextId, roles, follows, loggedIn, now, inflight>>

\* confirm(token): login_required; auth.* endpoints pass before_request.
ConfirmView(u, token) ==
    /\ u \in loggedIn
    /\ users' =
         IF ~users[u].confirmed /\ confirm(u, token, ConfirmMaxAge, now).ok
         THEN [users EXCEPT ![u].confirmed = TRUE]
         ELSE users
    /\ last' = [Blank EXCEPT !.op = "confirm", !.who = u, !.token = token,
                             !.at = now, !.was_confirmed = users[u].confirmed,
                             !.ok = ~users[u].confirmed
                                    /\ confirm(u, token, ConfirmMaxAge, now).ok,
                             !.exc = IF users[u].confirmed THEN ""
                                     ELSE confirm(u, token, ConfirmMaxAge, now).exc,
                             !.status = 302]
    /\ UNCHANGED content
    /\ UNCHANGED <<nextId, roles, follows, loggedIn, mailbox, now, inflight>>

-----------------------------------------------------------------------------
(* A call of the static method User.verify_auth_token.                     *)

VerifyAuthToken(token) ==
    /\ last' = [Blank EXCEPT !.op = "verify_auth_token", !.token = token,
                             !.at = now,
                             !.user = verify_auth_token(token, now).user,
                             !.exc = verify_auth_token(token, now).exc]
    /\ UNCHANGED content
    /\ UNCHANGED <<users, nextId, roles, follows, loggedIn, mailbox, now, inflight>>

\* Time passes.
Tick ==
    /\ \E i \in Instants : i > now /\ now' = i
    /\ UNCHANGED content
    /\ UNCHANGED <<users, nextId, roles, follows, loggedIn, mailbox, inflight, last>>

-----------------------------------------------------------------------------
(* api/authentication.py                                                   *)

\* @auth.verify_password verify_passwd(email_or_token, password): what it
\* returns (ok) and what it leaves in g.
verify_passwd(email_or_token, password) ==
    IF email_or_token = EmptyIdent
    THEN [ok |-> FALSE, current_user |-> None, token_used |-> FALSE]
    ELSE IF password = EmptyString
    THEN [ok |-> UserByIdent(email_or_token) # None,
          current_user |-> UserByIdent(email_or_token), token_used |-> TRUE]
    ELSE IF UserByIdent(email_or_token) = None
    THEN [ok |-> FALSE, current_user |-> None, token_used |-> FALSE]
    ELSE [ok |-> User_verify_passwd(UserByIdent(email_or_token), password),
          current_user |-> UserByIdent(email_or_token), token_used |-> FALSE]

\* A slip: get_token does not look at g.token_used.
get_token_NoTokenUsedCheck(email_or_token, password, t) ==
    LET g == verify_passwd(email_or_token, password)
        minted == generate_auth_token(g.current_user, TokenExpiration, t)
    IN  IF ~g.ok THEN [status |-> 401, exc |-> "", token |-> NoToken]
        ELSE IF ~users[g.current_user].confirmed
        THEN [status |-> 403, exc |-> "", token |-> NoToken]
        ELSE IF minted.exc # ""
        THEN [status |-> 500, exc |-> minted.exc, token |-> NoToken]
        ELSE [status |-> 200, exc |-> "", token |-> minted.token]

\* before_request under auth.login_required, then get_token: the status of
\* the response and the token in it.  auth_error answers 401 when
\* verify_passwd returns False; an exception leaving the view is a 500.
get_token(email_or_token, password, t) ==
    LET g == verify_passwd(email_or_token, password)
        minted == generate_auth_token(g.current_user, TokenExpiration, t)
    IN  IF ~g.ok THEN [status |-> 401, exc |-> "", token |-> NoToken]
        ELSE IF ~users[g.current_user].confirmed
        THEN [status |-> 403, exc |-> "", token |-> NoToken]
        ELSE IF g.token_used THEN [status |-> 401, exc |-> "", token |-> NoToken]
        ELSE IF minted.exc # ""
        THEN [status |-> 500, exc |-> minted.exc, token |-> NoToken]
        ELSE [status |-> 200, exc |-> "", token |-> minted.token]

\* POST /tokens/ with HTTP Basic credentials.
ApiGetToken(email_or_token, password) ==
    /\ last' = [Blank EXCEPT
                  !.op = "get_token", !.ident = email_or_token,
                  !.password = password, !.at = now,
                  !.ok = verify_passwd(email_or_token, password).ok,
                  !.user = verify_passwd(email_or_token, password).current_user,
                  !.token_used = verify_passwd(email_or_token, password).token_used,
                  !.status = get_token(email_or_token, password, now).status,
                  !.exc = get_token(email_or_token, password, now).exc,
                  !.token = get_token(email_or_token, password, now).token]
    /\ UNCHANGED content
    /\ UNCHANGED <<users, nextId, roles, follows, loggedIn, mailbox, now, inflight>>

-----------------------------------------------------------------------------
(* The follows table and the social graph methods of User.                 *)

\* A slip: the table has no key over (follower_id, followed_id).
InsertFollow_NoPrimaryKey(table, a, b) ==
    [exc |-> "", table |-> [table EXCEPT ![<<a, b>>] = @ + 1]]

\* INSERT of a Follow row at flush: follower_id and followed_id together are
\* the primary key, so a second row for the pair is refused.
InsertFollow(table, a, b) ==
    IF table[<<a, b>>] >= 1
    THEN [exc |-> "IntegrityError", table |-> table]
    ELSE [exc |-> "", table |-> [table EXCEPT ![<<a, b>>] = @ + 1]]

\* DELETE of one Follow row of the pair.
DeleteFollow(table, a, b) == [table EXCEPT ![<<a, b>>] = @ - 1]

\* User.is_following: user.id is never None for a stored user.
is_following(a, b) == follows[<<a, b>>] >= 1

\* User.add_self_follows(): every user not following themselves gets the
\* edge, then one commit.
AddSelfFollows ==
    /\ follows' = [p \in UserIds \X UserIds |->
                     IF p[1] = p[2] /\ p[1] \in DOMAIN users /\ ~is_following(p[1], p[2])
                     THEN InsertFollow(follows, p[1], p[2]).table[p]
                     ELSE follows[p]]
    /\ last' = [Blank EXCEPT !.op = "add_self_follows", !.at = now]
    /\ UNCHANGED content
    /\ UNCHANGED <<users, nextId, roles, loggedIn, mailbox, now, inflight>>

-----------------------------------------------------------------------------
(* Gates in front of the main views.                                       *)

\* auth.before_request with the test on the confirmed flag turned round.
auth_before_request_ConfirmedOnly(u, blueprint) ==
    /\ users[u].confirmed
    /\ blueprint # "auth"
    /\ blueprint # "static"

\* auth.before_request (before_app_request): TRUE when the request of the
\* logged-in user u to an endpoint of the blueprint is redirected to
\* auth.unconfirmed.
auth_before_request(u, blueprint) ==
    /\ ~users[u].confirmed
    /\ blueprint # "auth"
    /\ blueprint # "static"

\* decorators.permission_required(permission): TRUE when the view may run.
permission_required(u, permission) == can(u, permission)

-----------------------------------------------------------------------------
(* main/views.py: follow and unfollow.  A follow request reads twice and   *)
(* writes at commit; other requests can run in between.                    *)

\* follow(username), lines 176-184: the gates, the lookup and the view's own
\* is_following check.
FollowBegin(u, username) ==
    /\ BagCardinality(inflight) < MaxRequests
    /\ u \in loggedIn
    /\ LET target == UserByUsername(username)
       IN  IF auth_before_request(u, "main")
           THEN /\ last' = [Blank EXCEPT !.op = "follow", !.who = u,
                                         !.exc = "Unconfirmed", !.status = 302]
                /\ UNCHANGED inflight
           ELSE IF ~permission_required(u, FOLLOW)
           THEN /\ last' = [Blank EXCEPT !.op = "follow", !.who = u,
                                         !.exc = "Forbidden", !.status = 403]
                /\ UNCHANGED inflight
           ELSE IF target = None
           THEN /\ last' = [Blank EXCEPT !.op = "follow", !.who = u,
                                         !.exc = "Invalid user", !.status = 302]
                /\ UNCHANGED inflight
           ELSE IF is_following(u, target)
           THEN /\ last' = [Blank EXCEPT !.op = "follow", !.who = u,
                                         !.target = target, !.status = 302]
                /\ UNCHANGED inflight
           ELSE /\ inflight' = inflight (+) SetToBag(
                                  {[pc |-> "follow", who |-> u, target |-> target]})
                /\ UNCHANGED last
    /\ UNCHANGED content
    /\ UNCHANGED <<users, nextId, roles, follows, loggedIn, mailbox, now>>

\* line 186, User.follow: the second is_following check; the new row is
\* added to the session when it finds none.
FollowCall(r) ==
    /\ BagIn(r, inflight)
    /\ r.pc = "follow"
    /\ inflight' = (inflight (-) SetToBag({r})) (+) SetToBag(
                      {[r EXCEPT !.pc = IF is_following(r.who, r.target)
                                        THEN "commit_nothing" ELSE "commit_row"]})
    /\ UNCHANGED content
    /\ UNCHANGED <<users, nextId, roles, follows, loggedIn, mailbox, now, last>>

\* line 187, db.session.commit(): the pending row is inserted.  An
\* IntegrityError is not caught by the view: the response is a 500.
FollowCommit(r) ==
    /\ BagIn(r, inflight)
    /\ r.pc \in {"commit_nothing", "commit_row"}
    /\ LET ins == InsertFollow(follows, r.who, r.target)
       IN  IF r.pc = "commit_nothing"
           THEN /\ follows' = follows
                /\ last' = [Blank EXCEPT !.op = "follow", !.who = r.who,
                                         !.target = r.target, !.status = 302]
           ELSE /\ follows' = ins.table
                /\ last' = [Blank EXCEPT !.op = "follow", !.who = r.who,
                                         !.target = r.target, !.exc = ins.exc,
                                         !.ok = (ins.exc = ""),
                                         !.status = IF ins.exc = "" THEN 302 ELSE 500]
    /\ inflight' = inflight (-) SetToBag({r})
    /\ UNCHANGED content
    /\ UNCHANGED <<users, nextId, roles, loggedIn, mailbox, now>>

\* unfollow(username): login_required only; User.unfollow deletes the row of
\* (current_user, user) when there is one, whoever user is.
Unfollow(u, username) ==
    /\ u \in loggedIn
    /\ LET target == UserByUsername(username)
       IN  IF auth_before_request(u, "main")
           THEN /\ last' = [Blank EXCEPT !.op = "unfollow", !.who = u,
                                         !.exc = "Unconfirmed", !.status = 302]
                /\ UNCHANGED follows
           ELSE IF target = None
           THEN /\ last' = [Blank EXCEPT !.op = "unfollow", !.who = u,
                                         !.exc = "Invalid user", !.status = 302]
                /\ UNCHANGED follows
           ELSE /\ follows' = IF is_following(u, target)
                              THEN DeleteFollow(follows, u, target)
                              ELSE follows
                /\ last' = [Blank EXCEPT !.op = "unfollow", !.who = u,
                                         !.target = target,
                                         !.ok = is_following(u, target),
                                         !.status = 302]
    /\ UNCHANGED content
    /\ UNCHANGED <<users, nextId, roles, loggedIn, mailbox, now, inflight>>

-----------------------------------------------------------------------------
(* main/views.py: posts and the index page.                                *)

\* follow(username) run from its first line to its response with no other
\* request in between: FollowBegin, FollowCall and FollowCommit in one step.
FollowRequest(u, username) ==
    /\ u \in loggedIn
    /\ LET target == UserByUsername(username)
           ins == InsertFollow(follows, u, target)
       IN  IF auth_before_request(u, "main")
           THEN /\ last' = [Blank EXCEPT !.op = "follow", !.who = u,
                                         !.exc = "Unconfirmed", !.status = 302]
                /\ UNCHANGED follows
           ELSE IF ~permission_required(u, FOLLOW)
           THEN /\ last' = [Blank EXCEPT !.op = "follow", !.who = u,
                                         !.exc = "Forbidden", !.status = 403]
                /\ UNCHANGED follows
           ELSE IF target = None
           THEN /\ last' = [Blank EXCEPT !.op = "follow", !.who = u,
                                         !.exc = "Invalid user", !.status = 302]
                /\ UNCHANGED follows
           ELSE IF is_following(u, target)
           THEN /\ last' = [Blank EXCEPT !.op = "follow", !.who = u,
                                         !.target = target, !.status = 302]
                /\ UNCHANGED follows
           ELSE /\ follows' = ins.table
                /\ last' = [Blank EXCEPT !.op = "follow", !.who = u,
                                         !.target = target, !.exc = ins.exc,
                                         !.ok = (ins.exc = ""),
                                         !.status = IF ins.exc = "" THEN 302 ELSE 500]
    /\ UNCHANGED content
    /\ UNCHANGED <<users, nextId, roles, loggedIn, mailbox, now, inflight>>

\* index(), POST with a valid PostForm: lines 32-47.  The view has no
\* decorator; the row's timestamp is the column default, the clock at insert.
CreatePost(u) ==
    /\ nextPostId <= MaxPosts
    /\ u \in loggedIn
    /\ IF auth_before_request(u, "main")
       THEN /\ last' = [Blank EXCEPT !.op = "create_post", !.who = u,
                                     !.exc = "Unconfirmed", !.status = 302]
            /\ UNCHANGED <<posts, nextPostId>>
       ELSE /\ posts' = posts @@ (nextPostId :> [author_id |-> u, timestamp |-> now])
            /\ nextPostId' = nextPostId + 1
            /\ last' = [Blank EXCEPT !.op = "create_post", !.who = u,
                                     !.target = nextPostId, !.at = now,
                                     !.ok = TRUE, !.status = 302]
    /\ UNCHANGED <<comments, nextCommentId>>
    /\ UNCHANGED <<users, nextId, roles, follows, loggedIn, mailbox, now, inflight>>

\* A query result before it is ordered: row -> number of times it occurs.
\* Post.query
Post_query == [p \in DOMAIN posts |-> 1]

\* User.followed_posts with the join on the other column of Follow: the
\* posts of the user's followers.
followed_posts_JoinOnFollower(u) ==
    LET rows(p) == follows[<<posts[p].author_id, u>>]
    IN  [p \in {q \in DOMAIN posts : rows(q) > 0} |-> rows(p)]

\* User.followed_posts: posts joined with the follows rows whose followed_id
\* is the post's author, filtered on follower_id = u; one result row for
\* every pair of a post and a matching follows row.
followed_posts(u) ==
    LET rows(p) == follows[<<u, posts[p].author_id>>]
    IN  [p \in {q \in DOMAIN posts : rows(q) > 0} |-> rows(p)]

\* query.order_by(Post.timestamp.desc()): the orders the store may return
\* the rows in, latest first; rows of equal timestamp come in any order.
RECURSIVE order_by_timestamp_desc(_)
order_by_timestamp_desc(query) ==
    IF DOMAIN query = {} THEN {<<>>}
    ELSE LET latest == {p \in DOMAIN query :
                           \A q \in DOMAIN query :
                              posts[p].timestamp >= posts[q].timestamp}
             rest(p) == [q \in {r \in DOMAIN query : r # p \/ query[r] > 1} |->
                           IF q = p THEN query[q] - 1 ELSE query[q]]
         IN  UNION {{<<p>> \o s : s \in order_by_timestamp_desc(rest(p))} :
                      p \in latest}

\* index(): per_page=5
PostsPerPage == 5

\* Pagination.items of query.paginate(page, per_page, error_out=False) over
\* the ordered rows s.
paginate(s, page, per_page) ==
    LET first == (page - 1) * per_page + 1
        end == IF page * per_page < Len(s) THEN page * per_page ELSE Len(s)
    IN  IF first > Len(s) THEN <<>> ELSE SubSeq(s, first, end)

\* The page numbers requested.
Pages == {1}

\* index(), GET: lines 49-62.  show_followed is the cookie of the request.
IndexView(u, show_followed, page) ==
    /\ u \in loggedIn
    /\ IF auth_before_request(u, "main")
       THEN last' = [Blank EXCEPT !.op = "index", !.who = u,
                                  !.exc = "Unconfirmed", !.status = 302]
       ELSE \E s \in order_by_timestamp_desc(
                        IF show_followed THEN followed_posts(u) ELSE Post_query) :
               last' = [Blank EXCEPT !.op = "index", !.who = u,
                                     !.ok = show_followed, !.page = page,
                                     !.items = paginate(s, page, PostsPerPage),
                                     !.status = 200]
    /\ UNCHANGED content
    /\ UNCHANGED <<users, nextId, roles, follows, loggedIn, mailbox, now, inflight>>

-----------------------------------------------------------------------------

(* models.py: permission checks and the seeding of the roles table.        *)

\* AnonymousUser.can
AnonymousUser_can(permissions) == FALSE

\* current_user.can(permissions): current_user is the session's user, or
\* the AnonymousUser (who = None) when the request has no session.
current_user_can(who, permissions) ==
    IF who = None THEN AnonymousUser_can(permissions) ELSE can(who, permissions)

\* The masks asked for: none, every single bit, sums of two and three bits,
\* all bits.
PermissionInputs ==
    {0, FOLLOW, COMMENT, WRITE, MODERATE_COMMENTS, ADMINISTER,
     FOLLOW + COMMENT, FOLLOW + MODERATE_COMMENTS, WRITE + MODERATE_COMMENTS,
     MODERATE_COMMENTS + ADMINISTER, COMMENT + ADMINISTER, 16, 16 + FOLLOW,
     FOLLOW + COMMENT + WRITE, 255}

\* A call current_user.can(permissions).
CanCall(who, permissions) ==
    /\ who # None => who \in loggedIn
    /\ last' = [Blank EXCEPT !.op = "can", !.who = who,
                             !.permissions = permissions,
                             !.ok = current_user_can(who, permissions)]
    /\ UNCHANGED content
    /\ UNCHANGED <<users, nextId, roles, follows, loggedIn, mailbox, now, inflight>>

\* The attributes of class Permission.
PermissionAttrs ==
    [FOLLOW |-> FOLLOW, COMMENT |-> COMMENT, WRITE |-> WRITE,
     MODERATE_COMMENTS |-> MODERATE_COMMENTS, ADMINISTER |-> ADMINISTER]

\* Permission.<name>: the value, or AttributeError.
Permission(name) ==
    IF name \in DOMAIN PermissionAttrs
    THEN [exc |-> "", value |-> PermissionAttrs[name]]
    ELSE [exc |-> "AttributeError", value |-> 0]

\* Role.insert_roles(): the dict literal of lines 153-161 is evaluated first,
\* and it reads Permission.WRITE_ARTICLES; the loop that upserts the three
\* rows and the commit run only when no attribute lookup raised.
insert_roles(table) ==
    LET read == {"FOLLOW", "COMMENT", "WRITE_ARTICLES", "MODERATE_COMMENTS"}
        v(name) == Permission(name).value
    IN  IF \E name \in read : Permission(name).exc # ""
        THEN [exc |-> "AttributeError", table |-> table]
        ELSE [exc |-> "",
              table |->
                 [n \in DOMAIN table \cup RoleNames |->
                    CASE n = "User" ->
                           [permissions |-> v("FOLLOW") + v("COMMENT") + v("WRITE_ARTICLES"),
                            default |-> TRUE]
                      [] n = "Moderator" ->
                           [permissions |-> v("FOLLOW") + v("COMMENT") + v("WRITE_ARTICLES")
                                            + v("MODERATE_COMMENTS"),
                            default |-> FALSE]
                      [] n = "Administrator" ->
                           [permissions |-> 255, default |-> FALSE]
                      [] OTHER -> table[n]]]

\* A call Role.insert_roles() (from a shell or a deployment script).
InsertRoles ==
    /\ roles' = insert_roles(roles).table
    /\ last' = [Blank EXCEPT !.op = "insert_roles",
                             !.exc = insert_roles(roles).exc,
                             !.ok = (insert_roles(roles).exc = "")]
    /\ UNCHANGED content
    /\ UNCHANGED <<users, nextId, follows, loggedIn, mailbox, now, inflight>>

-----------------------------------------------------------------------------
(* main/views.py: the administrator's profile editor.                      *)

\* decorators.admin_required: TRUE when the view may run.
admin_required(u) == can(u, ADMINISTER)

\* db.session.commit() of a changed users table: the unique indexes on
\* users.email and users.username refuse a table with two equal values.
CommitUsers(table) ==
    IF \E a \in DOMAIN table, b \in DOMAIN table :
          /\ a # b
          /\ \/ table[a].email = table[b].email
             \/ table[a].username = table[b].username
    THEN [exc |-> "IntegrityError", table |-> users]
    ELSE [exc |-> "", table |-> table]

\* EditProfileAdminForm.validate_email / validate_username and the role
\* choices, for the edited user id.
EditProfileAdminFormValid(id, email, username, role) ==
    /\ email = users[id].email \/ UserByEmail(email) = None
    /\ username = users[id].username \/ UserByUsername(username) = None
    /\ role \in DOMAIN roles

\* edit_profile_admin(id), POST.  Line 105 assigns form.name.data to
\* user.username after line 102 assigned form.username.data.
EditProfileAdmin(u, id, email, username, confirmed, role, name) ==
    /\ u \in loggedIn
    /\ LET row == [users[id] EXCEPT !.email = email, !.username = name,
                                    !.confirmed = confirmed, !.role = role]
           done == CommitUsers([users EXCEPT ![id] = row])
           resp == [Blank EXCEPT !.op = "edit_profile_admin", !.who = u,
                                 !.target = id]
       IN  IF auth_before_request(u, "main")
           THEN /\ last' = [resp EXCEPT !.exc = "Unconfirmed", !.status = 302]
                /\ UNCHANGED users
           ELSE IF ~admin_required(u)
           THEN /\ last' = [resp EXCEPT !.exc = "Forbidden", !.status = 403]
                /\ UNCHANGED users
           ELSE IF id \notin DOMAIN users
           THEN /\ last' = [resp EXCEPT !.exc = "NotFound", !.status = 404]
                /\ UNCHANGED users
           ELSE IF ~EditProfileAdminFormValid(id, email, username, role)
           THEN /\ last' = [resp EXCEPT !.exc = "ValidationError", !.status = 200]
                /\ UNCHANGED users
           ELSE /\ users' = done.table
                /\ last' = [resp EXCEPT !.exc = done.exc, !.ok = (done.exc = ""),
                                        !.status = IF done.exc = "" THEN 302 ELSE 500]
    /\ UNCHANGED content
    /\ UNCHANGED <<nextId, roles, follows, loggedIn, mailbox, now, inflight>>

-----------------------------------------------------------------------------

(* main/views.py: comments and their moderation.                           *)

\* Comment.disabled has no default: a new row holds NULL (None, falsy).
Null == "NULL"

\* current_app.config['FLASKY_COMMENTS_PER_PAGE']
FLASKY_COMMENTS_PER_PAGE == 2

\* post(id), POST with a valid CommentForm: lines 125-135.  The view has no
\* decorator.
CreateComment(u, id) ==
    /\ nextCommentId <= MaxComments
    /\ u \in loggedIn
    /\ LET resp == [Blank EXCEPT !.op = "create_comment", !.who = u,
                                 !.target = id, !.at = now]
       IN  IF auth_before_request(u, "main")
           THEN /\ last' = [resp EXCEPT !.exc = "Unconfirmed", !.status = 302]
                /\ UNCHANGED <<comments, nextCommentId>>
           ELSE IF id \notin DOMAIN posts
           THEN /\ last' = [resp EXCEPT !.exc = "NotFound", !.status = 404]
                /\ UNCHANGED <<comments, nextCommentId>>
           ELSE /\ comments' = comments @@ (nextCommentId :>
                       [post_id |-> id, author_id |-> u, timestamp |-> now,
                        disabled |-> Null])
                /\ nextCommentId' = nextCommentId + 1
                /\ last' = [resp EXCEPT !.user = nextCommentId, !.ok = TRUE,
                                        !.status = 302]
    /\ UNCHANGED <<posts, nextPostId>>
    /\ UNCHANGED <<users, nextId, roles, follows, loggedIn, mailbox, now, inflight>>

\* query.order_by(Comment.timestamp.asc()) / .desc() over the comment ids:
\* the orders the store may return them in.
RECURSIVE order_by_comment_timestamp(_, _)
order_by_comment_timestamp(ids, descending) ==
    IF ids = {} THEN {<<>>}
    ELSE LET first == {c \in ids : \A d \in ids :
                          IF descending
                          THEN comments[c].timestamp >= comments[d].timestamp
                          ELSE comments[c].timestamp <= comments[d].timestamp}
         IN  UNION {{<<c>> \o s :
                        s \in order_by_comment_timestamp(ids \ {c}, descending)} :
                      c \in first}

\* post.comments: the comments of the post, whatever their disabled flag.
post_comments(id) == {c \in DOMAIN comments : comments[c].post_id = id}

\* Comment.query
Comment_query == DOMAIN comments

\* The page numbers a comment listing is asked for; -1 is the last page.
CommentPages == {1, 2, -1}

\* post(id), GET: lines 125, 136-150.  who = None is a request without a
\* session.
PostView(who, id, page) ==
    /\ who # None => who \in loggedIn
    /\ LET resp == [Blank EXCEPT !.op = "post", !.who = who, !.target = id,
                                 !.requested = page]
           shown == IF page = -1
                    THEN Cardinality(post_comments(id)) \div FLASKY_COMMENTS_PER_PAGE + 1
                    ELSE page
       IN  IF who # None /\ auth_before_request(who, "main")
           THEN last' = [resp EXCEPT !.exc = "Unconfirmed", !.status = 302]
           ELSE IF id \notin DOMAIN posts
           THEN last' = [resp EXCEPT !.exc = "NotFound", !.status = 404]
           ELSE \E s \in order_by_comment_timestamp(post_comments(id), FALSE) :
                   last' = [resp EXCEPT !.ok = TRUE, !.status = 200,
                                        !.page = shown,
                                        !.items = paginate(s, shown,
                                                     FLASKY_COMMENTS_PER_PAGE)]
    /\ UNCHANGED content
    /\ UNCHANGED <<users, nextId, roles, follows, loggedIn, mailbox, now, inflight>>

\* ModerationRefusal without the permission_required decorator.
ModerationRefusal_NoPermission(u) ==
    IF auth_before_request(u, "main") THEN [exc |-> "Unconfirmed", status |-> 302]
    ELSE [exc |-> "", status |-> 0]

\* What stands in front of the four moderation views for the logged-in user
\* u: the unconfirmed gate, then permission_required(MODERATE_COMMENTS).
ModerationRefusal(u) ==
    IF auth_before_request(u, "main") THEN [exc |-> "Unconfirmed", status |-> 302]
    ELSE IF ~permission_required(u, MODERATE_COMMENTS)
    THEN [exc |-> "Forbidden", status |-> 403]
    ELSE [exc |-> "", status |-> 0]

\* moderate(): the listing of all comments, latest first.
Moderate(u, page) ==
    /\ u \in loggedIn
    /\ LET resp == [Blank EXCEPT !.op = "moderate", !.who = u]
           no == ModerationRefusal(u)
       IN  IF no.exc # ""
           THEN last' = [resp EXCEPT !.exc = no.exc, !.status = no.status]
           ELSE \E s \in order_by_comment_timestamp(Comment_query, TRUE) :
                   last' = [resp EXCEPT !.ok = TRUE, !.status = 200, !.page = page,
                                        !.items = paginate(s, page,
                                                     FLASKY_COMMENTS_PER_PAGE)]
    /\ UNCHANGED content
    /\ UNCHANGED <<users, nextId, roles, follows, loggedIn, mailbox, now, inflight>>

\* ModerationStep with a flag that is flipped where it should be set.
ModerationStep_Toggle(op, u, id, flag, remove) ==
    /\ u \in loggedIn
    /\ LET resp == [Blank EXCEPT !.op = op, !.who = u, !.target = id]
           no == ModerationRefusal(u)
       IN  IF no.exc # ""
           THEN /\ last' = [resp EXCEPT !.exc = no.exc, !.status = no.status]
                /\ UNCHANGED comments
           ELSE IF id \notin DOMAIN comments
           THEN /\ last' = [resp EXCEPT !.exc = "NotFound", !.status = 404]
                /\ UNCHANGED comments
           ELSE /\ comments' =
                      IF remove
                      THEN [c \in DOMAIN comments \ {id} |-> comments[c]]
                      ELSE [comments EXCEPT ![id].disabled =
                               IF comments[id].disabled = "True" THEN "False"
                               ELSE "True"]
                /\ last' = [resp EXCEPT !.ok = TRUE, !.status = 302]
    /\ UNCHANGED <<posts, nextPostId, nextCommentId>>
    /\ UNCHANGED <<users, nextId, roles, follows, loggedIn, mailbox, now, inflight>>

\* The response and the comments table of a moderation view that sets the
\* flag of comment id (remove = FALSE) or deletes the row (remove = TRUE).
ModerationStep(op, u, id, flag, remove) ==
    /\ u \in loggedIn
    /\ LET resp == [Blank EXCEPT !.op = op, !.who = u, !.target = id]
           no == ModerationRefusal(u)
       IN  IF no.exc # ""
           THEN /\ last' = [resp EXCEPT !.exc = no.exc, !.status = no.status]
                /\ UNCHANGED comments
           ELSE IF id \notin DOMAIN comments
           THEN /\ last' = [resp EXCEPT !.exc = "NotFound", !.status = 404]
                /\ UNCHANGED comments
           ELSE /\ comments' =
                      IF remove
                      THEN [c \in DOMAIN comments \ {id} |-> comments[c]]
                      ELSE [comments EXCEPT ![id].disabled = flag]
                /\ last' = [resp EXCEPT !.ok = TRUE, !.status = 302]
    /\ UNCHANGED <<posts, nextPostId, nextCommentId>>
    /\ UNCHANGED <<users, nextId, roles, follows, loggedIn, mailbox, now, inflight>>

\* moderate_enable(id): comment.disabled = False
ModerateEnable(u, id) == ModerationStep("moderate_enable", u, id, "False", FALSE)

\* moderate_disable(id): comment.disabled = True
ModerateDisable(u, id) == ModerationStep("moderate_disable", u, id, "True", FALSE)

\* delete_comment(id): comment.disabled = True; db.session.delete(comment)
DeleteComment(u, id) == ModerationStep("delete_comment", u, id, "True", TRUE)

-----------------------------------------------------------------------------
(* auth/views.py: delete_account.                                          *)

\* delete_account(), POST with the yes button: the user is logged out and
\* deleted.  The relationships of User (posts, followed, followers,
\* comments) and Post.comments cascade the delete.
DeleteAccount(u) ==
    /\ u \in loggedIn
    /\ LET gone == {p \in DOMAIN posts : posts[p].author_id = u}
       IN  /\ users' = [v \in DOMAIN users \ {u} |-> users[v]]
           /\ posts' = [p \in DOMAIN posts \ gone |-> posts[p]]
           /\ comments' = [c \in {d \in DOMAIN comments :
                                     /\ comments[d].author_id # u
                                     /\ comments[d].post_id \notin gone} |->
                             comments[c]]
           /\ follows' = [p \in UserIds \X UserIds |->
                            IF p[1] = u \/ p[2] = u THEN 0 ELSE follows[p]]
    /\ loggedIn' = loggedIn \ {u}
    /\ last' = [Blank EXCEPT !.op = "delete_account", !.who = u, !.ok = TRUE,
                             !.status = 302]
    /\ UNCHANGED <<nextId, roles, mailbox, now, inflight, nextPostId, nextCommentId>>

-----------------------------------------------------------------------------

(* Writers of users.email and users.username.                              *)

\* register(), first half: form.validate_on_submit() with the two
\* validate_ methods of RegistrationForm.  A valid form goes on to the
\* commit; other requests can run before it gets there.
RegisterBegin(email, username, password) ==
    /\ BagCardinality(inflight) < MaxRequests
    /\ IF ~RegistrationFormValid(email, username)
       THEN /\ last' = [Blank EXCEPT !.op = "register", !.at = now,
                                     !.exc = "ValidationError", !.status = 200]
            /\ UNCHANGED inflight
       ELSE /\ inflight' = inflight (+) SetToBag(
                              {[pc |-> "register", email |-> email,
                                username |-> username, password |-> password]})
            /\ UNCHANGED last
    /\ UNCHANGED content
    /\ UNCHANGED <<users, nextId, roles, follows, loggedIn, mailbox, now>>

\* register(), second half: lines 64-75.  The commit inserts the row; an
\* IntegrityError is not caught by the view: the response is a 500.
RegisterCommit(r) ==
    /\ BagIn(r, inflight)
    /\ r.pc = "register"
    /\ nextId <= MaxUsers
    /\ LET row == [email |-> r.email, username |-> r.username,
                   passwd_hash |-> generate_password_hash(Strip(r.password)),
                   role |-> InitialRole(r.email), confirmed |-> FALSE]
           done == CommitUsers(users @@ (nextId :> row))
           token == generate_confirmation_token(nextId, now)
       IN  IF done.exc # ""
           THEN /\ last' = [Blank EXCEPT !.op = "register", !.at = now,
                                         !.exc = done.exc, !.status = 500]
                /\ UNCHANGED <<users, nextId, loggedIn, mailbox>>
           ELSE /\ users' = done.table
                /\ nextId' = nextId + 1
                /\ loggedIn' = loggedIn \cup {nextId}
                /\ mailbox' = mailbox \cup {token}
                /\ last' = [Blank EXCEPT !.op = "register", !.who = nextId,
                                         !.at = now, !.ok = TRUE, !.status = 302,
                                         !.token = token]
    /\ inflight' = inflight (-) SetToBag({r})
    /\ UNCHANGED content
    /\ UNCHANGED <<roles, follows, now>>

\* change_email(), POST: ChangeEmailForm has no validate_email; the view
\* assigns the address and commits.
ChangeEmail(u, email) ==
    /\ u \in loggedIn
    /\ LET done == CommitUsers([users EXCEPT ![u].email = email])
       IN  /\ users' = done.table
           /\ last' = [Blank EXCEPT !.op = "change_email", !.who = u,
                                    !.exc = done.exc, !.ok = (done.exc = ""),
                                    !.status = IF done.exc = "" THEN 302 ELSE 500]
    /\ UNCHANGED content
    /\ UNCHANGED <<nextId, roles, follows, loggedIn, mailbox, now, inflight>>

\* edit_profile(), POST: EditProfileForm.name has the validator Length(0, 64)
\* only; line 80 assigns it to current_user.username.
EditProfile(u, name) ==
    /\ u \in loggedIn
    /\ LET done == CommitUsers([users EXCEPT ![u].username = name])
           resp == [Blank EXCEPT !.op = "edit_profile", !.who = u]
       IN  IF auth_before_request(u, "main")
           THEN /\ last' = [resp EXCEPT !.exc = "Unconfirmed", !.status = 302]
                /\ UNCHANGED users
           ELSE /\ users' = done.table
                /\ last' = [resp EXCEPT !.exc = done.exc, !.ok = (done.exc = ""),
                                        !.status = IF done.exc = "" THEN 302 ELSE 500]
    /\ UNCHANGED content
    /\ UNCHANGED <<nextId, roles, follows, loggedIn, mailbox, now, inflight>>

-----------------------------------------------------------------------------
(* auth/views.py: the browser's credential flows.                          *)

\* wtforms DataRequired: the field's data is truthy and, being a string,
\* is not whitespace only.
DataRequired(data) == Strip(data) # <<>>

\* What a user types into a password field.
PlainTexts ==
    {EmptyString, <<" ">>, <<"a">>, <<" ", "a">>, <<"a", " ">>, <<"b">>}

\* login(), POST: LoginForm asks DataRequired of both fields; the password
\* is handed to verify_passwd as typed.
Login(email, password) ==
    /\ LET user == UserByEmail(email)
           valid == DataRequired(password)
           ok == valid /\ user # None /\ User_verify_passwd(user, password)
       IN  /\ loggedIn' = IF ok THEN loggedIn \cup {user} ELSE loggedIn
           /\ last' = [Blank EXCEPT !.op = "login", !.user = user,
                                    !.password = password, !.at = now,
                                    !.ok = ok,
                                    !.exc = IF valid THEN "" ELSE "ValidationError",
                                    !.status = IF ok THEN 302 ELSE 200]
    /\ UNCHANGED content
    /\ UNCHANGED <<users, nextId, roles, follows, mailbox, now, inflight>>

\* logout(): login_required.
Logout(u) ==
    /\ u \in loggedIn
    /\ loggedIn' = loggedIn \ {u}
    /\ last' = [Blank EXCEPT !.op = "logout", !.who = u, !.at = now,
                             !.ok = TRUE, !.status = 302]
    /\ UNCHANGED content
    /\ UNCHANGED <<users, nextId, roles, follows, mailbox, now, inflight>>

\* change_password(), POST: login_required; PasswdChangeForm asks
\* DataRequired of both fields and EqualTo('password2') of the first; the
\* password is stored as typed.
ChangePassword(u, password, password2) ==
    /\ u \in loggedIn
    /\ LET valid == /\ DataRequired(password)
                    /\ DataRequired(password2)
                    /\ password = password2
       IN  /\ users' = IF valid
                       THEN [users EXCEPT
                                ![u].passwd_hash = generate_password_hash(password)]
                       ELSE users
           /\ last' = [Blank EXCEPT !.op = "change_password", !.who = u,
                                    !.password = password, !.at = now,
                                    !.ok = valid,
                                    !.exc = IF valid THEN "" ELSE "ValidationError",
                                    !.status = IF valid THEN 302 ELSE 200]
    /\ UNCHANGED content
    /\ UNCHANGED <<nextId, roles, follows, loggedIn, mailbox, now, inflight>>

-----------------------------------------------------------------------------
(* Specifications.                                                         *)

\* Tokens over time: registration, confirmation, verification.
Next ==
    \/ \E e \in Emails, n \in Usernames, p \in RegisterPasswords : Register(e, n, p)
    \/ \E u \in DOMAIN users : ResendConfirmation(u)
    \/ \E u \in DOMAIN users, t \in TokenInputs : ConfirmView(u, t)
    \/ \E t \in TokenInputs : VerifyAuthToken(t)
    \/ Tick

Spec == Init /\ [][Next]_vars

\* The API's credential exchange.
NextApi ==
    \/ \E e \in Emails, n \in Usernames, p \in RegisterPasswords : Register(e, n, p)
    \/ \E u \in DOMAIN users, t \in mailbox : ConfirmView(u, t)
    \/ \E i \in IdentInputs, p \in RequestPasswords : ApiGetToken(i, p)

SpecApi == Init /\ [][NextApi]_vars

\* The follow graph, with follow requests interleaving.  The accounts that
\* register here: an administrator and an ordinary user.
GraphAccounts == {<<"admin@x", "alice">>, <<"bob@x", "bob">>}

NextGraph ==
    \/ \E acct \in GraphAccounts : Register(acct[1], acct[2], <<"a">>)
    \/ \E u \in DOMAIN users : ConfirmView(u, generate_confirmation_token(u, 0))
    \/ AddSelfFollows
    \/ \E u \in DOMAIN users, n \in Usernames : FollowBegin(u, n)
    \/ \E r \in BagToSet(inflight) : FollowCall(r)
    \/ \E r \in BagToSet(inflight) : FollowCommit(r)
    \/ \E u \in DOMAIN users, n \in Usernames : Unfollow(u, n)

SpecGraph == Init /\ [][NextGraph]_vars

\* The feed: three accounts, registered in this order before the clock
\* moves, that write posts at two instants; the first two follow and get
\* followed, the third only writes.
FeedAccounts == <<<<"admin@x", "alice">>, <<"bob@x", "bob">>, <<"carol@x", "carol">>>>

FeedInstants == {0, 100}

FeedFollowers == {1, 2}

FeedFollowed == {"alice", "bob"}

NextFeed ==
    \/ \E i \in DOMAIN FeedAccounts :
          i = nextId /\ Register(FeedAccounts[i][1], FeedAccounts[i][2], <<"a">>)
    \/ \E u \in DOMAIN users, t \in mailbox : t.sub = u /\ ConfirmView(u, t)
    \/ \E u \in DOMAIN users \cap FeedFollowers, n \in FeedFollowed :
          FollowRequest(u, n)
    \/ \E u \in DOMAIN users : CreatePost(u)
    \/ \E u \in DOMAIN users, page \in Pages : IndexView(u, TRUE, page)
    \/ nextId > Len(FeedAccounts) /\ Tick /\ now' \in FeedInstants

SpecFeed == Init /\ [][NextFeed]_vars

\* Roles and permissions, on a fresh store and on a seeded one: accounts
\* register, the administrator changes roles, the roles table is seeded,
\* and permissions are asked for.
NextRoles ==
    \/ \E i \in DOMAIN FeedAccounts :
          i = nextId /\ Register(FeedAccounts[i][1], FeedAccounts[i][2], <<"a">>)
    \/ \E u \in DOMAIN users, t \in mailbox : t.sub = u /\ ConfirmView(u, t)
    \/ \E u \in DOMAIN users, id \in DOMAIN users, r \in RoleNames :
          EditProfileAdmin(u, id, users[id].email, users[id].username,
                           users[id].confirmed, r, users[id].username)
    \/ InsertRoles
    \/ \E who \in DOMAIN users \cup {None}, p \in PermissionInputs : CanCall(who, p)

SpecRoles == (Init \/ InitFresh) /\ [][NextRoles]_vars

\* The gate in front of the views: the administrator's account registers
\* and stays unconfirmed, the second account registers and confirms; both
\* send every kind of request, before and after.
GateAccounts == {1, 2}

GateConfirms == {2}

NextGate ==
    \/ \E i \in GateAccounts :
          i = nextId /\ Register(FeedAccounts[i][1], FeedAccounts[i][2], <<"a">>)
    \/ \E t \in mailbox : t.sub \in GateConfirms /\ ConfirmView(t.sub, t)
    \/ \E u \in DOMAIN users : CreatePost(u)
    \/ \E u \in DOMAIN users, id \in 1..MaxPosts : CreateComment(u, id)
    \/ \E u \in DOMAIN users, id \in 1..MaxPosts : PostView(u, id, 1)
    \/ \E u \in DOMAIN users, show_followed \in BOOLEAN :
          IndexView(u, show_followed, 1)
    \/ \E u \in DOMAIN users, n \in Usernames : FollowRequest(u, n)
    \/ \E u \in DOMAIN users, n \in Usernames : Unfollow(u, n)
    \/ \E u \in DOMAIN users, id \in DOMAIN users, r \in RoleNames :
          EditProfileAdmin(u, id, users[id].email, users[id].username,
                           users[id].confirmed, r, users[id].username)
    \/ \E u \in DOMAIN users : Moderate(u, 1)
    \/ \E u \in DOMAIN users, id \in 1..MaxComments : ModerateEnable(u, id)
    \/ \E u \in DOMAIN users, id \in 1..MaxComments : ModerateDisable(u, id)
    \/ \E u \in DOMAIN users, id \in 1..MaxComments : DeleteComment(u, id)
    \/ \E e \in Emails, p \in {<<"a">>, <<"b">>} : ApiGetToken(EmailIdent(e), p)

SpecGate == Init /\ [][NextGate]_vars

\* Moderation: the administrator and an ordinary user register and confirm;
\* one post is written, both comment on it, anyone reads its comments, both
\* ask for the moderation listing and for every moderation action, and
\* either may delete their account.
NextModeration ==
    \/ \E i \in GateAccounts :
          i = nextId /\ Register(FeedAccounts[i][1], FeedAccounts[i][2], <<"a">>)
    \/ \E t \in mailbox : ConfirmView(t.sub, t)
    \/ \E u \in DOMAIN users : nextPostId = 1 /\ CreatePost(u)
    \/ \E u \in DOMAIN users, id \in DOMAIN posts : CreateComment(u, id)
    \/ \E who \in DOMAIN users \cup {None}, id \in DOMAIN posts, page \in CommentPages :
          PostView(who, id, page)
    \/ \E u \in DOMAIN users, page \in Pages : Moderate(u, page)
    \/ \E u \in DOMAIN users, id \in 1..MaxComments : ModerateEnable(u, id)
    \/ \E u \in DOMAIN users, id \in 1..MaxComments : ModerateDisable(u, id)
    \/ \E u \in DOMAIN users, id \in 1..MaxComments : DeleteComment(u, id)
    \/ \E u \in DOMAIN users : DeleteAccount(u)

SpecModeration == Init /\ [][NextModeration]_vars

\* Retries: the two accounts of the moderation scenario follow and
\* unfollow and ask for every moderation action, any request any number of
\* times; the second account writes one post and the comments on it.
RetryAuthors == {2}

NextRetry ==
    \/ \E i \in GateAccounts :
          i = nextId /\ Register(FeedAccounts[i][1], FeedAccounts[i][2], <<"a">>)
    \/ \E t \in mailbox : ConfirmView(t.sub, t)
    \/ \E u \in DOMAIN users \cap RetryAuthors : nextPostId = 1 /\ CreatePost(u)
    \/ \E u \in DOMAIN users \cap RetryAuthors, id \in DOMAIN posts :
          CreateComment(u, id)
    \/ \E u \in DOMAIN users, n \in Usernames : FollowRequest(u, n)
    \/ \E u \in DOMAIN users, n \in Usernames : Unfollow(u, n)
    \/ \E u \in DOMAIN users, id \in 1..MaxComments : ModerateEnable(u, id)
    \/ \E u \in DOMAIN users, id \in 1..MaxComments : ModerateDisable(u, id)
    \/ \E u \in DOMAIN users, id \in 1..MaxComments : DeleteComment(u, id)

SpecRetry == Init /\ [][NextRetry]_vars

\* Addresses and usernames: registrations that may overlap, and the three
\* views that rewrite the address or the username of an account.
NextConflict ==
    \/ \E e \in Emails, n \in Usernames : RegisterBegin(e, n, <<"a">>)
    \/ \E r \in BagToSet(inflight) : RegisterCommit(r)
    \/ \E t \in mailbox : ConfirmView(t.sub, t)
    \/ \E u \in DOMAIN users, e \in Emails : ChangeEmail(u, e)
    \/ \E u \in DOMAIN users, n \in Usernames : EditProfile(u, n)
    \/ \E u \in DOMAIN users, id \in DOMAIN users, e \in Emails,
          n \in Usernames, name \in Usernames :
          EditProfileAdmin(u, id, e, n, users[id].confirmed, users[id].role, name)

SpecConflict == Init /\ [][NextConflict]_vars


\* The credential flows: registration (RegistrationForm asks DataRequired of
\* the password, so only such passwords register), login, logout and
\* password change.
NextPassword ==
    \/ \E acct \in GraphAccounts, p \in PlainTexts :
          DataRequired(p) /\ Register(acct[1], acct[2], p)
    \/ \E e \in Emails, p \in PlainTexts : Login(e, p)
    \/ \E u \in DOMAIN users : Logout(u)
    \/ \E u \in DOMAIN users, p \in PlainTexts, p2 \in PlainTexts :
          ChangePassword(u, p, p2)

SpecPassword == Init /\ [][NextPassword]_vars

\* Comment pages: the two accounts of the moderation scenario register and
\* confirm, one post is written, and comments are published on it and its
\* pages are read while time passes.
NextComments ==
    \/ \E i \in GateAccounts :
          i = nextId /\ Register(FeedAccounts[i][1], FeedAccounts[i][2], <<"a">>)
    \/ \E t \in mailbox : ConfirmView(t.sub, t)
    \/ \E u \in DOMAIN users : nextPostId = 1 /\ CreatePost(u)
    \/ \E u \in DOMAIN users, id \in DOMAIN posts : CreateComment(u, id)
    \/ \E who \in DOMAIN users, id \in DOMAIN posts, page \in CommentPages :
          PostView(who, id, page)
    \/ nextPostId > 1 /\ Tick

SpecComments == Init /\ [][NextComments]_vars

-----------------------------------------------------------------------------
(* Properties.                                                             *)

\* What the specification asks of a token presented for a purpose at time t:
\* signed with the key, tagged for that purpose, not older than max_age.
TokenVerifies(token, purpose, max_age, t) ==
    /\ token.sig = "good"
    /\ token.key = purpose
    /\ t - token.ts <= max_age

\* C1: an API request with an empty password field is authenticated as u only
\* if its identifier is a valid auth token of u; any other identifier (a
\* registered address, say) is answered 401 and resolves no identity.
C1_EmptyPasswordNeedsToken ==
    LET valid == /\ TokenVerifies(last.ident.token, "id", TokenExpiration, last.at)
                 /\ last.ident.token.sub \in DOMAIN users
    IN  (last.op = "get_token" /\ last.password = EmptyString) =>
            /\ last.ok => (valid /\ last.user = last.ident.token.sub)
            /\ ~valid => (~last.ok /\ last.user = None /\ last.status = 401)

\* C2: a visit of the confirmation endpoint by an unconfirmed account sets
\* that account's confirmed flag if and only if the token is a confirm token
\* signed with the key, at most 3600 s old, whose subject is the requesting
\* account; and no step sets the flag of any account in another way.
C2_ConfirmIffTokenVerifies ==
    /\ [](( last.op = "confirm" /\ ~last.was_confirmed) =>
            ( users[last.who].confirmed
              <=> /\ TokenVerifies(last.token, "confirm", 3600, last.at)
                  /\ last.token.sub = last.who ))
    /\ [][\A u \in DOMAIN users :
            (~users[u].confirmed /\ users'[u].confirmed) =>
                /\ last'.op = "confirm" /\ last'.who = u
                /\ TokenVerifies(last'.token, "confirm", 3600, last'.at)
                /\ last'.token.sub = u]_vars

\* C2 witness: a token minted 3000 s earlier has just confirmed its account.
C2_Witness ==
    /\ last.op = "confirm" /\ last.ok /\ ~last.was_confirmed
    /\ last.at - last.token.ts = 3000
    /\ users[last.who].confirmed

C4_PurposesDisjoint ==
    /\ []((last.op = "verify_auth_token" /\ last.token.key = "confirm")
            => last.user = None)
    /\ []((last.op = "confirm" /\ last.token.key = "id") => ~last.ok)
    /\ [][(last'.op = "confirm" /\ last'.token.key = "id") =>
            \A u \in DOMAIN users : users'[u].confirmed = users[u].confirmed]_vars

\* C4 witness: a confirmation token that register or resend_confirmation
\* minted has been handed to verify_auth_token.
C4_Witness ==
    /\ last.op = "verify_auth_token"
    /\ last.token \in mailbox

\* C5: neither confirm nor verify_auth_token lets an exception out, whatever
\* the token.
C5_VerificationNeverRaises ==
    (last.op \in {"confirm", "verify_auth_token"}) => last.exc = ""

C7_RoundTrip ==
    /\ ( /\ last.op = "get_token" /\ last.ok /\ ~last.token_used
         /\ users[last.user].confirmed )
       => /\ last.token # NoToken
          /\ verify_auth_token(last.token, last.at) = [exc |-> "", user |-> last.user]
    /\ (last.op \in {"register", "resend_confirmation"} /\ last.who # None)
       => confirm(last.who, last.token, ConfirmMaxAge, last.at).ok

\* C8: every user whose account was activated has the edge
\* (user.id, user.id), in every state from then on.
C8_SelfFollow ==
    \A u \in DOMAIN users : users[u].confirmed => is_following(u, u)

\* C9: no request to the unfollow endpoint, whatever the target username,
\* deletes an edge whose follower and followed are the same user.
C9_UnfollowKeepsSelfEdge ==
    [][last'.op = "unfollow" =>
          \A u \in DOMAIN users : is_following(u, u) => follows'[<<u, u>>] >= 1]_vars

\* C10: the follows table never holds two rows for one ordered pair
\* (follower, followed), however follow requests for the pair interleave.
C10_FollowEdgeUnique ==
    \A p \in UserIds \X UserIds : follows[p] <= 1

\* C10 witness: two follow requests for the same pair both passed both
\* is_following checks; the first committed its row and the second has just
\* had its own refused by the store.
C10_Witness ==
    /\ last.op = "follow" /\ last.exc = "IntegrityError"
    /\ follows[<<last.who, last.target>>] = 1

\* C11: a follow request whose commit is refused by the store's uniqueness
\* constraint (the edge was inserted by another request in the meantime)
\* completes normally, with the redirect of a successful follow and no error
\* surfaced, and the edge exists afterwards.
C11_DuplicateFollowIsSuccess ==
    (last.op = "follow" /\ last.exc = "IntegrityError")
       => /\ last.status = 302
          /\ is_following(last.who, last.target)

\* The sequence s lists, each once and latest first, exactly the posts whose
\* author the user u has a follows row for.
IsFeedOf(s, u) ==
    /\ {s[i] : i \in DOMAIN s} =
          {p \in DOMAIN posts : is_following(u, posts[p].author_id)}
    /\ \A i \in DOMAIN s, j \in DOMAIN s : i # j => s[i] # s[j]
    /\ \A i \in DOMAIN s, j \in DOMAIN s :
          i < j => posts[s[i]].timestamp >= posts[s[j]].timestamp

\* C12: the feed of a user (followed_posts, ordered as the index view orders
\* it) holds exactly the posts whose author b has a follows row (u, b), each
\* once, latest first; so the first page the index view shows u1 after
\* u1.follow(u2) has u2's posts and no post of a u3 that u1 does not follow.
C12_FeedIsFollowedAuthorsPosts ==
    /\ \A u \in DOMAIN users :
          \A s \in order_by_timestamp_desc(followed_posts(u)) : IsFeedOf(s, u)
    /\ ( /\ last.op = "index" /\ last.status = 200 /\ last.ok /\ last.page = 1
         /\ Cardinality(DOMAIN posts) <= PostsPerPage )
       => IsFeedOf(last.items, last.who)

\* C12 witness: the index view has shown the followed posts to a user who
\* follows a second user and not a third, when the second has two posts of
\* different instants and the third has one; the page has the second's posts.
C12_Witness ==
    /\ last.op = "index" /\ last.status = 200 /\ last.ok /\ last.page = 1
    /\ \E u2 \in DOMAIN users, u3 \in DOMAIN users :
          /\ u2 # last.who /\ u3 # last.who /\ u2 # u3
          /\ is_following(last.who, u2) /\ ~is_following(last.who, u3)
          /\ \E p \in DOMAIN posts, q \in DOMAIN posts, r \in DOMAIN posts :
                /\ posts[p].author_id = u2 /\ posts[q].author_id = u2
                /\ posts[p].timestamp < posts[q].timestamp
                /\ posts[r].author_id = u3
                /\ Len(last.items) = 2
                /\ last.items[1] = q /\ last.items[2] = p

\* The positions of the bits set in the mask n.
RECURSIVE Bits(_)
Bits(n) ==
    IF n = 0 THEN {}
    ELSE (IF n % 2 = 1 THEN {0} ELSE {}) \cup {b + 1 : b \in Bits(n \div 2)}

\* C13: can(user, cap) is true exactly when every bit of cap is among the
\* bits of the user's role; so it is false when only some of cap's bits are,
\* false for a user with no role, and false for the anonymous identity
\* whatever cap is.
C13_CanIsFullMask ==
    last.op = "can" =>
       last.ok = ( /\ last.who # None
                   /\ users[last.who].role # NoRole
                   /\ Bits(last.permissions) \subseteq
                         Bits(roles[users[last.who].role].permissions) )

\* C13 witness: a user whose role has some of the asked bits and not all of
\* them was refused.
C13_Witness ==
    /\ last.op = "can" /\ last.who # None /\ ~last.ok
    /\ users[last.who].role # NoRole
    /\ Bits(last.permissions) \cap
          Bits(roles[users[last.who].role].permissions) # {}

\* C14: after a call of the role seeding the roles table holds User with
\* exactly the bits Follow, Comment and Write, Moderator with those and
\* ModerateComments, and Administrator with every capability bit, in the bit
\* values can() checks against; each tier's mask contains the one before.
C14_SeedingGivesTiers ==
    last.op = "insert_roles" =>
       /\ RoleNames \subseteq DOMAIN roles
       /\ roles["User"].permissions = FOLLOW + COMMENT + WRITE
       /\ roles["Moderator"].permissions =
             FOLLOW + COMMENT + WRITE + MODERATE_COMMENTS
       /\ \A cap \in {FOLLOW, COMMENT, WRITE, MODERATE_COMMENTS, ADMINISTER} :
             Bits(cap) \subseteq Bits(roles["Administrator"].permissions)
       /\ Bits(roles["User"].permissions) \subseteq Bits(roles["Moderator"].permissions)
       /\ Bits(roles["Moderator"].permissions)
             \subseteq Bits(roles["Administrator"].permissions)

\* C15: every stored user has a role, one of the rows of the roles table,
\* from creation on: right after its registration the user with the
\* configured administrator address has the Administrator role and any other
\* user has the role flagged default; no user is stored with no role.
C15_EveryUserHasRole ==
    /\ \A u \in DOMAIN users : users[u].role \in DOMAIN roles
    /\ (last.op = "register" /\ last.ok) =>
          IF users[last.who].email = FLASKY_ADMIN
          THEN users[last.who].role = "Administrator"
          ELSE roles[users[last.who].role].default

\* The requests to views of the main blueprint.
MainOps ==
    {"create_post", "create_comment", "post", "index", "follow", "unfollow",
     "moderate", "moderate_enable", "moderate_disable", "delete_comment",
     "edit_profile_admin"}

\* C16: a request to a view of the main blueprint sent by a logged-in user
\* whose confirmed flag is false is answered with the redirect to the
\* unconfirmed page, and an API request authenticated as such a user with
\* 403; either leaves users, posts, comments and follows as they were and
\* hands out no token.
C16_UnconfirmedGate ==
    [][\A u \in DOMAIN users :
          ( /\ ~users[u].confirmed
            /\ \/ last'.op \in MainOps /\ last'.who = u
               \/ last'.op = "get_token" /\ last'.ok /\ last'.user = u )
          => /\ users' = users /\ posts' = posts /\ comments' = comments
             /\ follows' = follows
             /\ last'.token = NoToken
             /\ IF last'.op = "get_token" THEN last'.status = 403
                ELSE last'.status = 302 /\ last'.exc = "Unconfirmed"]_vars

\* C16 witness: the unconfirmed administrator asked to delete a comment that
\* exists and was redirected; the comment is still there.
C16_Witness ==
    /\ last.op = "delete_comment" /\ last.exc = "Unconfirmed"
    /\ last.who \in DOMAIN users /\ ~users[last.who].confirmed
    /\ can(last.who, MODERATE_COMMENTS)
    /\ last.target \in DOMAIN comments

\* The comment c is in the state Disabled (its flag is set).
Disabled(table, c) == table[c].disabled = "True"

\* The step changes the state of the comment c: its flag goes from set to
\* not set or back, or its row is removed.
CommentStateChanges(c) ==
    \/ c \notin DOMAIN comments'
    \/ Disabled(comments', c) # Disabled(comments, c)

\* The step is a moderation action on the comment c by a user who holds
\* MODERATE_COMMENTS.
ByModerator(c) ==
    /\ last'.op \in {"moderate_enable", "moderate_disable", "delete_comment"}
    /\ last'.target = c
    /\ last'.who \in DOMAIN users
    /\ can(last'.who, MODERATE_COMMENTS)

\* The step is the deletion of the account that wrote the comment c or the
\* post it is on.
ByAccountDeletion(c) ==
    /\ last'.op = "delete_account"
    /\ \/ comments[c].author_id = last'.who
       \/ posts[comments[c].post_id].author_id = last'.who

\* A comment that was removed is never in the table again.
RemovedStaysRemoved ==
    \A c \in 1..MaxComments :
       (c < nextCommentId /\ c \notin DOMAIN comments) => c \notin DOMAIN comments'

\* C17: the state of a comment changes (Active to Disabled, Disabled to
\* Active, any state to removed) only in a moderation action on it by a user
\* who holds MODERATE_COMMENTS; no other request changes a comment's flag or
\* removes a comment; a removed comment never comes back.
C17_OnlyModeratorsChangeComments ==
    [][ /\ \A c \in DOMAIN comments : CommentStateChanges(c) => ByModerator(c)
        /\ RemovedStaysRemoved ]_vars

\* C17, amended: the state of a comment changes only in a moderation action
\* on it by a user who holds MODERATE_COMMENTS, or when the account that
\* wrote it or wrote its post is deleted; a removed comment never comes back.
C17_OnlyModeratorsOrAccountDeletion ==
    [][ /\ \A c \in DOMAIN comments :
              CommentStateChanges(c) => (ByModerator(c) \/ ByAccountDeletion(c))
        /\ RemovedStaysRemoved ]_vars

\* C17 witness: a user without MODERATE_COMMENTS has just asked to delete a
\* comment written by someone else and was refused; the comment is there.
C17_Witness ==
    /\ last.op = "delete_comment" /\ last.exc = "Forbidden" /\ last.status = 403
    /\ last.target \in DOMAIN comments
    /\ comments[last.target].author_id # last.who
    /\ \E c \in 1..MaxComments : c < nextCommentId /\ c \notin DOMAIN comments

\* C18: the public listing of a post's comments (the page the post view
\* shows) holds the comments of the post that are not disabled, and the
\* moderation listing holds all comments: a disabled comment is absent from
\* the first and present in the second, an enabled one is in both, a deleted
\* one in neither.
C18_ListingsFollowState ==
    /\ (last.op = "post" /\ last.status = 200) =>
          \E s \in order_by_comment_timestamp(
                      {c \in post_comments(last.target) : ~Disabled(comments, c)},
                      FALSE) :
             last.items = paginate(s, last.page, FLASKY_COMMENTS_PER_PAGE)
    /\ (last.op = "moderate" /\ last.status = 200) =>
          \E s \in order_by_comment_timestamp(DOMAIN comments, TRUE) :
             last.items = paginate(s, last.page, FLASKY_COMMENTS_PER_PAGE)

\* The requests that are retried.
RetryOps ==
    {"moderate_enable", "moderate_disable", "delete_comment", "follow", "unfollow"}

\* C19: when an enable, disable, delete-comment, follow or unfollow request
\* is sent again right after it was answered (same view, same user, same
\* comment or target user), the second request leaves the comments and the
\* follows table as the first left them.
C19_RetryChangesNothing ==
    [][( /\ last.op \in RetryOps
         /\ last'.op = last.op /\ last'.who = last.who /\ last'.target = last.target )
       => (comments' = comments /\ follows' = follows)]_vars

\* C19 witness: a comment that existed was asked to be deleted again and the
\* answer was 404, while the table has a follows row and the follow request
\* for it is still possible to repeat.
C19_Witness ==
    /\ last.op = "delete_comment" /\ last.exc = "NotFound"
    /\ last.target < nextCommentId
    /\ can(last.who, MODERATE_COMMENTS)
    /\ \E p \in UserIds \X UserIds : follows[p] = 1

\* The views that write users.email or users.username.
IdentityOps == {"register", "change_email", "edit_profile", "edit_profile_admin"}

\* C20: an attempt to give an account an address or a username that another
\* user holds, at registration, email change or profile edit, overlapping
\* registrations included, is answered with the form and its field error,
\* never with the failure of the store's unique index; and no two users
\* share an address or a username.
C20_ConflictIsFormError ==
    /\ \A a \in DOMAIN users, b \in DOMAIN users :
          a # b => /\ users[a].email # users[b].email
                   /\ users[a].username # users[b].username
    /\ last.op \in IdentityOps =>
          (last.exc # "IntegrityError" /\ last.status # 500)

CredentialOps == {"register", "change_password"}

\* The account whose password the request recorded in r has just set.
PasswordSetFor(r) == IF r.op \in CredentialOps /\ r.ok THEN r.who ELSE None

\* C21: a login that follows the registration of an account, or a change of
\* its password, with the plaintext p, and that names the account's address,
\* succeeds if it presents exactly p and fails if it presents anything else,
\* whatever whitespace p begins or ends with.
C21_CredentialRoundTrip ==
    [][(PasswordSetFor(last) # None /\ last'.op = "login"
            /\ last'.user = PasswordSetFor(last))
        => (last'.ok <=> last'.password = last.password)]_vars

\* The comment c is the latest of its post: the last of the listing in
\* ascending order of timestamp.
NewestOfPost(c) ==
    \A d \in post_comments(comments[c].post_id) \ {c} :
        comments[d].timestamp < comments[c].timestamp

\* C22: when a user has published a comment, the latest of its post, and
\* follows the redirect to the post with page = -1, the page of the
\* ascending listing that is shown holds that comment, whatever the number
\* of comments of the post, a multiple of the page size included.
C22_LastPageHoldsNewComment ==
    [][(/\ last.op = "create_comment" /\ last.ok
        /\ NewestOfPost(last.user)
        /\ last'.op = "post" /\ last'.ok
        /\ last'.who = last.who /\ last'.target = last.target
        /\ last'.requested = -1)
        => \E i \in 1..Len(last'.items) : last'.items[i] = last.user]_vars

====
